---- MODULE Spec2Model ----
(***************************************************************************)
(* poi (src/poi.py): notes stored as files whose names carry the three     *)
(* timestamps created, edited and viewed; a persisted listing cache        *)
(* (.poi/listing.json) mapping the indices of the last listing to paths;   *)
(* a persisted last-note pointer (.poi/lastnote).                          *)
(*                                                                         *)
(* File names and paths are strings; slicing, concatenation, basename and  *)
(* dirname are computed on them as the code computes them.  The wall clock *)
(* is `clock`, the number of seconds elapsed since 2024-03-01 10:00:00.    *)
(* An optional file (listing.json, lastnote) is a sequence of length 0 (no *)
(* such file) or 1 (its content).  The text of a                           *)
(* note and the copies edit leaves in .poi/backups are read by no command  *)
(* except to print them or to match search terms, and are not state here.  *)
(*                                                                         *)
(* Spec and SpecPlain run one invocation of poi at a time, each to its     *)
(* end.  The later specifications add what the store's environment can do: *)
(* a file put into the store by hand, an invocation killed between two of  *)
(* its writes, two invocations running at once.                            *)
(***************************************************************************)
EXTENDS Integers, Sequences, FiniteSets, TLC

\* Bounds of the model: the number of add commands and the last clock tick;
\* the number of add commands when poi list is only run without options.
MaxNotes == 2
MaxClock == 1
MaxPlainNotes == 3

\* The last second a note of the store SpecCodec starts from can carry in one
\* of its timestamps.
MaxStamp == 2

VARIABLES
  files,     \* the store: path -> serial of the add that created the file
  listing,   \* .poi/listing.json: <<>> or <<[key string -> path]>>
  lastnote,  \* .poi/lastnote: <<>> or <<path>>
  clock,     \* wall clock, in seconds
  added,     \* number of files created so far (the next file's serial)
  last,      \* what the last command did, as it reported it
  running    \* the view/edit invocations in progress: process -> its locals

vars == <<files, listing, lastnote, clock, added, last, running>>

-----------------------------------------------------------------------------
\* Strings

Digit == <<"0", "1", "2", "3", "4", "5", "6", "7", "8", "9">>

IsDigit(c) == \E d \in 1..10 : Digit[d] = c

\* s[i - 1] of Python: the i-th character.
Char(s, i) == SubSeq(s, i, i)

\* Code points of the characters file names and paths are made of.
Ord(c) ==
  CASE c = "-" -> 45
    [] c = "." -> 46
    [] c = "/" -> 47
    [] IsDigit(c) -> 47 + (CHOOSE d \in 1..10 : Digit[d] = c)
    [] c = "h" -> 104
    [] c = "i" -> 105
    [] c = "o" -> 111
    [] c = "p" -> 112

Min(a, b) == IF a <= b THEN a ELSE b

\* s[a:b] of Python: 0-based, end exclusive, clamped to the string.
Slice(s, a, b) == SubSeq(s, a + 1, Min(b, Len(s)))

\* s < t and s <= t of Python strings: lexicographic by code point.
RECURSIVE StrLessFrom(_, _, _)
StrLessFrom(s, t, i) ==
  IF i > Len(t) THEN FALSE
  ELSE IF i > Len(s) THEN TRUE
  ELSE IF Char(s, i) = Char(t, i) THEN StrLessFrom(s, t, i + 1)
  ELSE Ord(Char(s, i)) < Ord(Char(t, i))

StrLess(s, t) == StrLessFrom(s, t, 1)

StrLeq(s, t) == s = t \/ StrLess(s, t)

\* str(n) for the indices of a listing.
IntStr(n) ==
  IF n < 10 THEN Digit[n + 1] ELSE Digit[(n \div 10) + 1] \o Digit[(n % 10) + 1]

\* strftime('%Y%m%d%H%M%S') of the instant t seconds after 2024-03-01 10:00:00.
Strftime(t) == "202403011000" \o Digit[(t \div 10) + 1] \o Digit[(t % 10) + 1]

\* strptime(s[:14], '%Y%m%d%H%M%S') succeeds: fourteen digits.
StrptimeOk(s) ==
  /\ Len(Slice(s, 0, 14)) = 14
  /\ \A i \in 1..14 : IsDigit(Char(s, i))

EXTENSION == ".poi"

POIHOME == "/h"

-----------------------------------------------------------------------------
\* Paths

\* p.rfind('/') + 1, searching down from position i
RECURSIVE LastSlashFrom(_, _)
LastSlashFrom(p, i) ==
  IF i = 0 THEN 0 ELSE IF Char(p, i) = "/" THEN i ELSE LastSlashFrom(p, i - 1)

LastSlash(p) == LastSlashFrom(p, Len(p))

\* os.path.basename
Basename(p) == SubSeq(p, LastSlash(p) + 1, Len(p))

\* os.path.dirname (of a path whose directory part does not end in a slash)
Dirname(p) == IF LastSlash(p) <= 1 THEN SubSeq(p, 1, LastSlash(p))
              ELSE SubSeq(p, 1, LastSlash(p) - 1)

\* os.path.join of two components
Join(a, b) ==
  IF Len(b) > 0 /\ Char(b, 1) = "/" THEN b
  ELSE IF Len(a) = 0 \/ Char(a, Len(a)) = "/" THEN a \o b
  ELSE a \o "/" \o b

\* As parse_noteinfo, taking everything after the edited timestamp as viewed.
parse_noteinfo_open(path) ==
  LET name == Basename(path) IN
  [name |-> name, path |-> path,
   created |-> Slice(name, 0, 14),
   edited |-> Slice(name, 14, 28),
   viewed |-> Slice(name, 28, Len(name))]

parse_noteinfo(path) ==
  LET name == Basename(path) IN
  [name |-> name, path |-> path,
   created |-> Slice(name, 0, 14),
   edited |-> Slice(name, 14, 28),
   viewed |-> Slice(name, 28, 42)]

-----------------------------------------------------------------------------
\* The two cache files

\* str.strip(): leading and trailing newlines removed.
RECURSIVE Strip(_)
Strip(s) ==
  IF Len(s) > 0 /\ Char(s, 1) = "\n" THEN Strip(Tail(s))
  ELSE IF Len(s) > 0 /\ Char(s, Len(s)) = "\n" THEN Strip(SubSeq(s, 1, Len(s) - 1))
  ELSE s

\* The note record of .poi/lastnote, or <<>> when there is no such file.
load_lastnote == IF lastnote = <<>> THEN <<>> ELSE <<parse_noteinfo(Strip(lastnote[1]))>>

\* The mapping of .poi/listing.json, or <<>> when there is no such file.
load_listing == listing

\* As write_lastnote, writing the bare file name.
write_lastnote_name(path) == <<Basename(path) \o "\n">>

\* f.write(path + '\n') on .poi/lastnote
write_lastnote(path) == <<path \o "\n">>

\* The note a token resolves to: `_` through the last-note pointer, anything
\* else as a key of the last listing.  ok = FALSE is the message and exit.
fetch_note(N) ==
  IF N = "_"
    THEN IF load_lastnote = <<>>
           THEN [ok |-> FALSE, note |-> <<>>]
           ELSE [ok |-> TRUE, note |-> load_lastnote[1]]
    ELSE IF load_listing = <<>> \/ N \notin DOMAIN load_listing[1]
           THEN [ok |-> FALSE, note |-> <<>>]
           ELSE [ok |-> TRUE, note |-> parse_noteinfo(load_listing[1][N])]

-----------------------------------------------------------------------------
\* Note store

\* As create_file, writing the file of the current second whether or not it
\* exists.
create_file_noretry(t, fs) ==
  LET ts == Strftime(t) IN
  Join(Join(Join(POIHOME, Slice(ts, 0, 4)), Slice(ts, 4, 6)), ts \o ts \o ts \o EXTENSION)

\* The first free path of the form ts ts ts EXTENSION, trying t, t+1, ...
RECURSIVE create_file(_, _)
create_file(t, fs) ==
  LET ts == Strftime(t)
      filename == ts \o ts \o ts \o EXTENSION
      year == Slice(ts, 0, 4)
      month == Slice(ts, 4, 6)
      directory == Join(Join(POIHOME, year), month)
      path == Join(directory, filename)
  IN IF path \notin DOMAIN fs THEN path ELSE create_file(t + 1, fs)

\* The file name of a note: its three timestamps, then the extension.
note_name(created, edited, viewed) == created \o edited \o viewed \o EXTENSION

\* As new_info, stamping edited in every mode.
new_info_stamp_edited(old, mode, now) ==
  LET name == note_name(old.created, now, now)
  IN [name |-> name, path |-> Join(Dirname(old.path), name),
      created |-> old.created, edited |-> now, viewed |-> now]

\* The note record update_info renames to.
new_info(old, mode, now) ==
  LET edited == IF mode = "edited" THEN now ELSE old.edited
      viewed == IF mode \in {"viewed", "edited"} THEN now ELSE old.viewed
      name == note_name(old.created, edited, viewed)
  IN [name |-> name, path |-> Join(Dirname(old.path), name),
      created |-> old.created, edited |-> edited, viewed |-> viewed]

\* shutil.move(src, dst) of an existing file: os.rename, which replaces a file
\* already at dst.
move(fs, src, dst) ==
  IF src = dst THEN fs
  ELSE [p \in (DOMAIN fs \ {src}) \cup {dst} |-> IF p = dst THEN fs[src] ELSE fs[p]]

\* As patch_listing, leaving every entry as it was.
patch_listing_none(l, old, new) == l

\* update_info's rewrite of the listing: entries equal to the old path.
patch_listing(l, old, new) == [k \in DOMAIN l |-> IF l[k] = old THEN new ELSE l[k]]

\* delete_note's purge of the listing: entries equal to the note's name.
purge_listing(l, note) ==
  LET keep == {k \in DOMAIN l : l[k] # note.name} IN [k \in keep |-> l[k]]

\* As is_lastnote, comparing the note's path with the pointer's name.
is_lastnote_path(note, lastnoteInfo) == note.path = lastnoteInfo.name

\* delete_note's test for removing .poi/lastnote.
is_lastnote(note, lastnoteInfo) == note.name = lastnoteInfo.name

-----------------------------------------------------------------------------
\* Listing

RECURSIVE Orderings(_)
Orderings(S) ==
  IF S = {} THEN {<<>>}
  ELSE UNION {{Append(s, x) : s \in Orderings(S \ {x})} : x \in S}

\* glob.glob yields the files in an order the file system chooses.
load_notes == Orderings({parse_noteinfo(filepath) : filepath \in DOMAIN files})

\* sorted(notes, key=lambda x: x[mode]): stable.
RECURSIVE insert_sorted(_, _, _)
insert_sorted(sorted, x, mode) ==
  IF sorted = <<>> THEN <<x>>
  ELSE IF StrLess(x[mode], sorted[Len(sorted)][mode])
    THEN Append(insert_sorted(SubSeq(sorted, 1, Len(sorted) - 1), x, mode), sorted[Len(sorted)])
    ELSE Append(sorted, x)

RECURSIVE sort_notes(_, _)
sort_notes(notes, mode) ==
  IF notes = <<>> THEN <<>>
  ELSE insert_sorted(sort_notes(SubSeq(notes, 1, Len(notes) - 1), mode), notes[Len(notes)], mode)

\* strftime('%Y%m%d') of the day `daysAgo` days before the clock's day.
DayStr(daysAgo) ==
  CASE daysAgo = 1 -> "20240229"
    [] daysAgo = 0 -> "20240301"
    [] daysAgo = -1 -> "20240302"

\* s.replace('-', '')
RECURSIVE Undash(_)
Undash(s) ==
  IF Len(s) = 0 THEN s
  ELSE IF Head(s) = "-" THEN Undash(Tail(s))
  ELSE Head(s) \o Undash(Tail(s))

\* The options of `poi list` the model draws from.  hits is the set of paths
\* whose text contains every search term (the text is whatever the editor left).
SinceArgs == {<<>>, <<Strftime(1)>>}
BeforeArgs == {<<>>, <<"2024-03-01">>}
NdaysArgs == {<<>>, <<0>>, <<1>>}
Modes == {"created", "edited", "viewed"}

\* The notes that pass the filters on the creation date, in their order.
date_filter(notes, num_days_ago, since, before) ==
  LET s1 == IF num_days_ago # <<>>
              THEN SelectSeq(notes, LAMBDA n :
                     /\ StrLeq(DayStr(num_days_ago[1]), n.created)
                     /\ StrLess(n.created, DayStr(num_days_ago[1] - 1)))
              ELSE notes
      s2 == IF since # <<>>
              THEN SelectSeq(s1, LAMBDA n : StrLeq(Undash(since[1]), n.created))
              ELSE s1
  IN IF before # <<>>
       THEN SelectSeq(s2, LAMBDA n : StrLeq(n.created, Undash(before[1])))
       ELSE s2

\* path_name_title_and_timestamp: the notes whose text contains every term.
term_filter(notes, mode, hits) ==
  LET s4 == SelectSeq(notes, LAMBDA n : n.path \in hits) IN
  [i \in 1..Len(s4) |-> [path |-> s4[i].path, name |-> s4[i].name, timestamp |-> s4[i][mode]]]

\* Every path_name_title_and_timestamp list_notes can compute in this state
\* when sorting by mode, with the other options drawn from the given sets.
list_entries(mode, ndaysArgs, sinceArgs, beforeArgs, hitSets) ==
  LET sorted == {sort_notes(notes, mode) : notes \in load_notes}
      dated == {date_filter(s0, num_days_ago, since, before) :
                  s0 \in sorted, num_days_ago \in ndaysArgs,
                  since \in sinceArgs, before \in beforeArgs}
  IN {term_filter(s3, mode, hits) : s3 \in dated, hits \in hitSets}

\* As build_listing, with entry i under the key str(i).
build_listing_ascending(entries) ==
  LET N == Len(entries)
      kept == {i \in 0..(N - 1) : StrptimeOk(entries[i + 1].timestamp)}
  IN [k \in {IntStr(i) : i \in kept} |->
        entries[(CHOOSE i \in kept : IntStr(i) = k) + 1].path]

\* As build_listing, storing the file names instead of the paths.
build_listing_names(entries) ==
  LET N == Len(entries)
      kept == {i \in 0..(N - 1) : StrptimeOk(entries[i + 1].timestamp)}
  IN [k \in {IntStr(N - 1 - i) : i \in kept} |->
        entries[(CHOOSE i \in kept : IntStr(N - 1 - i) = k) + 1].name]

\* The mapping list_notes dumps: entry i of N gets the key str(N - 1 - i); an
\* entry whose timestamp does not parse is skipped.
build_listing(entries) ==
  LET N == Len(entries)
      kept == {i \in 0..(N - 1) : StrptimeOk(entries[i + 1].timestamp)}
  IN [k \in {IntStr(N - 1 - i) : i \in kept} |->
        entries[(CHOOSE i \in kept : IntStr(N - 1 - i) = k) + 1].path]

-----------------------------------------------------------------------------
\* Commands.  Each action is one invocation of poi run to its end: a normal
\* return, the message and sys.exit of a failed resolution, or an uncaught
\* exception ("crash"), which keeps what was written before it.

Tokens == {"_"} \cup {IntStr(i) : i \in 0..MaxNotes}

\* What a command reports: the note resolved (old), its serial (id), the path
\* it was renamed to or created at (new), the entries a listing printed.
Report(cmd, outcome, token, old, new, id, mode, result) ==
  [cmd |-> cmd, outcome |-> outcome, token |-> token, old |-> old, new |-> new,
   id |-> id, mode |-> mode, result |-> result]

Init ==
  /\ files = <<>>
  /\ listing = <<>>
  /\ lastnote = <<>>
  /\ clock = 0
  /\ added = 0
  /\ last = Report("init", "", "", "", "", -1, "", <<>>)
  /\ running = <<>>

\* The clock advances between (not within) commands.
Tick ==
  /\ clock < MaxClock
  /\ clock' = clock + 1
  /\ UNCHANGED <<files, listing, lastnote, added, last, running>>

\* poi add: create_file, then the editor.  At most n files are ever created.
add_upto(n) ==
  /\ added < n
  /\ LET path == create_file(clock, files) IN
       /\ files' = [p \in DOMAIN files \cup {path} |-> IF p = path THEN added ELSE files[p]]
       /\ last' = Report("add", "ok", "", "", path, added, "", <<>>)
  /\ added' = added + 1
  /\ UNCHANGED <<listing, lastnote, clock, running>>

\* update_info(note, mode) from the lastnote file content ln, reporting as cmd.
update_info(cmd, token, note, mode, ln) ==
  LET new == new_info(note, mode, Strftime(clock)) IN
  IF note.path \notin DOMAIN files
    THEN \* shutil.move raises: no such file
         /\ lastnote' = ln
         /\ last' = Report(cmd, "crash", token, note.path, "", -1, mode, <<>>)
         /\ UNCHANGED <<files, listing>>
    ELSE /\ files' = move(files, note.path, new.path)
         /\ lastnote' = write_lastnote(new.path)
         /\ IF load_listing = <<>>
              THEN \* None.items() raises
                   /\ last' = Report(cmd, "crash", token, note.path, new.path,
                                     files[note.path], mode, <<>>)
                   /\ UNCHANGED listing
              ELSE /\ listing' = <<patch_listing(load_listing[1], note.path, new.path)>>
                   /\ last' = Report(cmd, "ok", token, note.path, new.path,
                                     files[note.path], mode, <<>>)

\* As touch_note, opening .poi/lastnote for writing before the token is
\* resolved.
touch_note_eager(cmd, token, mode) ==
  LET r == fetch_note(token) IN
  /\ IF ~r.ok
       THEN /\ last' = Report(cmd, "not available", token, "", "", -1, mode, <<>>)
            /\ lastnote' = <<"">>
            /\ UNCHANGED <<files, listing>>
       ELSE update_info(cmd, token, r.note, mode, write_lastnote(r.note.path))
  /\ UNCHANGED <<clock, added, running>>

\* fetch_note(args) followed by update_info: poi view and poi edit.
touch_note(cmd, token, mode) ==
  LET r == fetch_note(token) IN
  /\ IF ~r.ok
       THEN /\ last' = Report(cmd, "not available", token, "", "", -1, mode, <<>>)
            /\ UNCHANGED <<files, listing, lastnote>>
       ELSE update_info(cmd, token, r.note, mode, write_lastnote(r.note.path))
  /\ UNCHANGED <<clock, added, running>>

add_note == add_upto(MaxNotes)

view_note == \E token \in Tokens : touch_note("view", token, "viewed")

edit_note == \E token \in Tokens : touch_note("edit", token, "edited")

\* poi random: a note of the store, chosen at random, is viewed.
random_note ==
  /\ IF \A notes \in load_notes : Len(notes) = 0
       THEN \* random.randint(0, -1) raises
            /\ last' = Report("random", "crash", "", "", "", -1, "viewed", <<>>)
            /\ UNCHANGED <<files, listing, lastnote>>
       ELSE \E note \in UNION {{notes[i] : i \in 1..Len(notes)} : notes \in load_notes} :
              update_info("random", "", note, "viewed", lastnote)
  /\ UNCHANGED <<clock, added, running>>

\* What the user types at `poi: delete (y/n)? `.
Answers == {"y", "n", "Y", "yes", ""}

\* As delete_note, cancelling only on the answer n.
delete_note_unless_n ==
  /\ \E token \in Tokens, ans \in Answers :
       LET r == fetch_note(token)
           note == r.note
           ln == write_lastnote(note.path)
           lastnoteInfo == parse_noteinfo(Strip(ln[1]))
       IN
       IF ~r.ok
         THEN /\ last' = Report("delete", "not available", token, "", "", -1, "", <<>>)
              /\ UNCHANGED <<files, listing, lastnote>>
         ELSE IF note.path \notin DOMAIN files
           THEN \* open(note['path']) raises
                /\ lastnote' = ln
                /\ last' = Report("delete", "crash", token, note.path, "", -1, "", <<>>)
                /\ UNCHANGED <<files, listing>>
         ELSE IF ans = "n"
           THEN /\ lastnote' = ln
                /\ last' = Report("delete", "cancelled", token, note.path, "",
                                  files[note.path], "", <<>>) @@ [ans |-> ans]
                /\ UNCHANGED <<files, listing>>
           ELSE /\ files' = [p \in DOMAIN files \ {note.path} |-> files[p]]
                /\ listing' = IF load_listing = <<>> THEN listing
                              ELSE <<purge_listing(load_listing[1], note)>>
                /\ lastnote' = IF is_lastnote(note, lastnoteInfo) THEN <<>> ELSE ln
                /\ last' = Report("delete", "deleted", token, note.path, "",
                                  files[note.path], "", <<>>) @@ [ans |-> ans]
  /\ UNCHANGED <<clock, added, running>>

\* poi delete, answered ans; the report of a delete that reached its prompt
\* carries the answer.
delete_note ==
  /\ \E token \in Tokens, ans \in Answers :
       LET r == fetch_note(token)
           note == r.note
           ln == write_lastnote(note.path)
           lastnoteInfo == parse_noteinfo(Strip(ln[1]))
       IN
       IF ~r.ok
         THEN /\ last' = Report("delete", "not available", token, "", "", -1, "", <<>>)
              /\ UNCHANGED <<files, listing, lastnote>>
         ELSE IF note.path \notin DOMAIN files
           THEN \* open(note['path']) raises
                /\ lastnote' = ln
                /\ last' = Report("delete", "crash", token, note.path, "", -1, "", <<>>)
                /\ UNCHANGED <<files, listing>>
         ELSE IF ans # "y"
           THEN /\ lastnote' = ln
                /\ last' = Report("delete", "cancelled", token, note.path, "",
                                  files[note.path], "", <<>>) @@ [ans |-> ans]
                /\ UNCHANGED <<files, listing>>
           ELSE /\ files' = [p \in DOMAIN files \ {note.path} |-> files[p]]
                /\ listing' = IF load_listing = <<>> THEN listing
                              ELSE <<purge_listing(load_listing[1], note)>>
                /\ lastnote' = IF is_lastnote(note, lastnoteInfo) THEN <<>> ELSE ln
                /\ last' = Report("delete", "deleted", token, note.path, "",
                                  files[note.path], "", <<>>) @@ [ans |-> ans]
  /\ UNCHANGED <<clock, added, running>>

\* poi list [-e|-v] [-n N] [-s SINCE] [-b BEFORE] [terms]
list_with(modes, ndaysArgs, sinceArgs, beforeArgs, hitSets) ==
  /\ \E mode \in modes :
     \E entries \in list_entries(mode, ndaysArgs, sinceArgs, beforeArgs, hitSets) :
       IF Len(entries) = 0
         THEN \* if there are no notes, do not show anything
              /\ last' = Report("list", "nothing", "", "", "", -1, mode, entries)
              /\ UNCHANGED listing
         ELSE /\ listing' = <<build_listing(entries)>>
              /\ last' = Report("list", "listed", "", "", "", -1, mode, entries)
  /\ UNCHANGED <<files, lastnote, clock, added, running>>

list_notes == list_with(Modes, NdaysArgs, SinceArgs, BeforeArgs, SUBSET DOMAIN files)

\* poi list without options: every note, sorted by creation.
list_plain == list_with({"created"}, {<<>>}, {<<>>}, {<<>>}, {DOMAIN files})

Next ==
  \/ Tick
  \/ add_note
  \/ list_notes
  \/ view_note
  \/ edit_note
  \/ random_note
  \/ delete_note

Spec == Init /\ [][Next]_vars

\* The commands that create and touch notes, with one more note than Spec and
\* poi list run without options.
NextPlain ==
  \/ Tick
  \/ add_upto(MaxPlainNotes)
  \/ list_plain
  \/ view_note
  \/ edit_note
  \/ random_note

SpecPlain == Init /\ [][NextPlain]_vars

-----------------------------------------------------------------------------
\* The store's environment

\* File names ending in EXTENSION that are not three timestamps and EXTENSION.
ForeignNames == <<"20240301100000" \o EXTENSION, "oh" \o EXTENSION>>

\* A file is put into the store by hand; glob('**/*' + EXTENSION) finds it.
\* The i-th foreign file has the serial -i, and is put there once.
drop_file ==
  /\ \E i \in DOMAIN ForeignNames :
       LET path == Join(Join(Join(POIHOME, "2024"), "03"), ForeignNames[i])
           serial == 0 - i
       IN /\ \A p \in DOMAIN files : files[p] # serial
          /\ path \notin DOMAIN files
          /\ files' = [p \in DOMAIN files \cup {path} |-> IF p = path THEN serial ELSE files[p]]
          /\ last' = Report("drop", "ok", "", "", path, serial, "", <<>>)
  /\ UNCHANGED <<listing, lastnote, clock, added, running>>

\* poi list [-e|-v]: every note, sorted by the chosen timestamp.
list_modes == list_with(Modes, {<<>>}, {<<>>}, {<<>>}, {DOMAIN files})

\* One added note beside files put into the store by hand.
NextForeign ==
  \/ Tick
  \/ add_upto(1)
  \/ drop_file
  \/ list_modes
  \/ view_note
  \/ edit_note

SpecForeign == Init /\ [][NextForeign]_vars

\* The timestamps of the notes SpecCodec starts from.
Stamps == {Strftime(t) : t \in 0..MaxStamp}

\* The path of a note's file: POIHOME, year, month, file name.
note_path(name) == Join(Join(Join(POIHOME, Slice(name, 0, 4)), Slice(name, 4, 6)), name)

\* A store that holds one note, whose timestamps are any three of Stamps (the
\* collision retry and a view within the same second leave them in any order).
InitCodec ==
  /\ \E created \in Stamps, edited \in Stamps, viewed \in Stamps :
       files = [p \in {note_path(note_name(created, edited, viewed))} |-> 0]
  /\ listing = <<>>
  /\ lastnote = <<>>
  /\ clock = 0
  /\ added = 1
  /\ last = Report("init", "", "", "", "", -1, "", <<>>)
  /\ running = <<>>

NextCodec ==
  \/ Tick
  \/ list_modes
  \/ view_note
  \/ edit_note

SpecCodec == InitCodec /\ [][NextCodec]_vars

\* A view or edit that is killed (or whose write of .poi/lastnote fails)
\* after shutil.move and before update_info's write of the pointer: the
\* pointer holds what fetch_note wrote, the listing cache is as it was.
touch_killed ==
  /\ \E token \in Tokens, cmd \in {"view", "edit"} :
       LET r == fetch_note(token)
           mode == IF cmd = "view" THEN "viewed" ELSE "edited"
           new == new_info(r.note, mode, Strftime(clock))
       IN /\ r.ok
          /\ r.note.path \in DOMAIN files
          /\ files' = move(files, r.note.path, new.path)
          /\ lastnote' = write_lastnote(r.note.path)
          /\ last' = Report(cmd, "killed", token, r.note.path, new.path,
                            files[r.note.path], mode, <<>>)
  /\ UNCHANGED <<listing, clock, added, running>>

NextCrash ==
  \/ Tick
  \/ add_note
  \/ list_notes
  \/ view_note
  \/ edit_note
  \/ touch_killed

SpecCrash == Init /\ [][NextCrash]_vars

\* Two invocations of poi view / poi edit at once.  Each is a process that
\* takes the steps of fetch_note and update_info on the shared files one at a
\* time: resolve the token, write the pointer, rename, write the pointer, read
\* listing.json, write listing.json.  The truncating open of a file and the
\* write that follows are one step: no reader meets a half-written file.
Procs == {1, 2}

\* The locals of an invocation: where it is, its arguments, the note resolved,
\* the note renamed to, the listing it has read.
Locals(pc, cmd, token, note, new, read) ==
  [pc |-> pc, cmd |-> cmd, token |-> token, note |-> note, new |-> new, listing |-> read]

ModeOf(cmd) == IF cmd = "view" THEN "viewed" ELSE "edited"

\* The serial of the file at path, -1 when there is none.
FileId(path) == IF path \in DOMAIN files THEN files[path] ELSE -1

\* running with the locals of process p set to loc.
Set(p, loc) == [q \in DOMAIN running \cup {p} |-> IF q = p THEN loc ELSE running[q]]

\* The start of an invocation: fetch_note's lookup of the token.
race_start(p) ==
  /\ p \notin DOMAIN running
  /\ \E token \in Tokens, cmd \in {"view", "edit"} :
       LET r == fetch_note(token) IN
       IF ~r.ok
         THEN /\ running' = Set(p, Locals("exit", cmd, token, <<>>, <<>>, <<>>))
              /\ last' = Report(cmd, "not available", token, "", "", -1, ModeOf(cmd), <<>>)
         ELSE /\ running' = Set(p, Locals("point", cmd, token, r.note, <<>>, <<>>))
              /\ UNCHANGED last
  /\ UNCHANGED <<files, listing, lastnote, clock, added>>

\* fetch_note's write of .poi/lastnote.
race_point(p) ==
  /\ p \in DOMAIN running
  /\ running[p].pc = "point"
  /\ lastnote' = write_lastnote(running[p].note.path)
  /\ running' = Set(p, [running[p] EXCEPT !.pc = "move"])
  /\ UNCHANGED <<files, listing, clock, added, last>>

\* update_info's new name and its shutil.move.
race_move(p) ==
  /\ p \in DOMAIN running
  /\ running[p].pc = "move"
  /\ LET loc == running[p]
         new == new_info(loc.note, ModeOf(loc.cmd), Strftime(clock))
     IN IF loc.note.path \notin DOMAIN files
          THEN \* shutil.move raises: no such file
               /\ running' = Set(p, [loc EXCEPT !.pc = "crash"])
               /\ last' = Report(loc.cmd, "crash", loc.token, loc.note.path, "", -1,
                                 ModeOf(loc.cmd), <<>>)
               /\ UNCHANGED files
          ELSE /\ files' = move(files, loc.note.path, new.path)
               /\ running' = Set(p, [loc EXCEPT !.pc = "lastnote", !.new = new])
               /\ UNCHANGED last
  /\ UNCHANGED <<listing, lastnote, clock, added>>

\* update_info's write of .poi/lastnote.
race_lastnote(p) ==
  /\ p \in DOMAIN running
  /\ running[p].pc = "lastnote"
  /\ lastnote' = write_lastnote(running[p].new.path)
  /\ running' = Set(p, [running[p] EXCEPT !.pc = "load"])
  /\ UNCHANGED <<files, listing, clock, added, last>>

\* update_info's load_listing.
race_load(p) ==
  /\ p \in DOMAIN running
  /\ running[p].pc = "load"
  /\ LET loc == running[p] IN
     IF load_listing = <<>>
       THEN \* None.items() raises
            /\ running' = Set(p, [loc EXCEPT !.pc = "crash"])
            /\ last' = Report(loc.cmd, "crash", loc.token, loc.note.path, loc.new.path,
                              FileId(loc.new.path), ModeOf(loc.cmd), <<>>)
       ELSE /\ running' = Set(p, [loc EXCEPT !.pc = "dump", !.listing = load_listing])
            /\ UNCHANGED last
  /\ UNCHANGED <<files, listing, lastnote, clock, added>>

\* As race_dump, patching the listing.json of the moment of the write.
race_dump_merge(p) ==
  /\ p \in DOMAIN running
  /\ running[p].pc = "dump"
  /\ load_listing # <<>>
  /\ LET loc == running[p] IN
     /\ listing' = <<patch_listing(load_listing[1], loc.note.path, loc.new.path)>>
     /\ running' = Set(p, [loc EXCEPT !.pc = "done"])
     /\ last' = Report(loc.cmd, "ok", loc.token, loc.note.path, loc.new.path,
                       FileId(loc.new.path), ModeOf(loc.cmd), <<>>)
  /\ UNCHANGED <<files, lastnote, clock, added>>

\* update_info's patch of the listing it has read and its json.dump.
race_dump(p) ==
  /\ p \in DOMAIN running
  /\ running[p].pc = "dump"
  /\ LET loc == running[p] IN
     /\ listing' = <<patch_listing(loc.listing[1], loc.note.path, loc.new.path)>>
     /\ running' = Set(p, [loc EXCEPT !.pc = "done"])
     /\ last' = Report(loc.cmd, "ok", loc.token, loc.note.path, loc.new.path,
                       FileId(loc.new.path), ModeOf(loc.cmd), <<>>)
  /\ UNCHANGED <<files, lastnote, clock, added>>

NextRace ==
  \/ Tick
  \/ add_note
  \/ list_plain
  \/ \E p \in Procs : race_start(p)
  \/ \E p \in Procs : race_point(p)
  \/ \E p \in Procs : race_move(p)
  \/ \E p \in Procs : race_lastnote(p)
  \/ \E p \in Procs : race_load(p)
  \/ \E p \in Procs : race_dump(p)

SpecRace == Init /\ [][NextRace]_vars

\* poi add step by step: create_file's loop, one test of a candidate path per
\* step.  The creation is process 1; its locals are the second it started at
\* and the second of the candidate.
Creating == 1 \in DOMAIN running

\* The path create_file tries for the second t.
candidate(t) == note_path(note_name(Strftime(t), Strftime(t), Strftime(t)))

\* now = dt.datetime.now()
create_start ==
  /\ ~Creating
  /\ added < MaxPlainNotes
  /\ running' = Set(1, [pc |-> "try", start |-> clock, now |-> clock])
  /\ UNCHANGED <<files, listing, lastnote, clock, added, last>>

\* As create_retry, taking the candidate from the clock again.
create_retry_clock ==
  /\ Creating
  /\ candidate(running[1].now) \in DOMAIN files
  /\ running' = Set(1, [running[1] EXCEPT !.now = clock])
  /\ UNCHANGED <<files, listing, lastnote, clock, added, last>>

\* The path exists: now += delta
create_retry ==
  /\ Creating
  /\ candidate(running[1].now) \in DOMAIN files
  /\ running' = Set(1, [running[1] EXCEPT !.now = @ + 1])
  /\ UNCHANGED <<files, listing, lastnote, clock, added, last>>

\* The path does not exist: path.write_text(''), break; then the editor.
create_write ==
  /\ Creating
  /\ LET path == candidate(running[1].now) IN
     /\ path \notin DOMAIN files
     /\ files' = [p \in DOMAIN files \cup {path} |-> IF p = path THEN added ELSE files[p]]
     /\ last' = Report("add", "ok", "", "", path, added, "", <<>>)
  /\ added' = added + 1
  /\ running' = <<>>
  /\ UNCHANGED <<listing, lastnote, clock>>

\* One invocation at a time: a command starts when no creation is running.
NextCreate ==
  \/ Tick
  \/ create_start
  \/ create_retry
  \/ create_write
  \/ ~Creating /\ list_plain
  \/ ~Creating /\ view_note

\* The process that runs create_file keeps running.
SpecCreate ==
  Init /\ [][NextCreate]_vars /\ WF_vars(create_retry) /\ WF_vars(create_write)

-----------------------------------------------------------------------------
\* Properties

\* The path the last-note pointer holds.
PointerPath == Strip(lastnote[1])

\* The paths of the listing cache.
CachePaths == IF listing = <<>> THEN {} ELSE {listing[1][k] : k \in DOMAIN listing[1]}

Touched == last.cmd \in {"view", "edit"} /\ last.outcome = "ok"

Listed == last.cmd = "list" /\ last.outcome = "listed"

Deleted == last.cmd = "delete" /\ last.outcome = "deleted"

\* C1: in every reachable state the last-note pointer is absent or holds the
\* path of a note file that exists in the store.
C1_PointerTargetsExistingNote ==
  lastnote = <<>> \/ PointerPath \in DOMAIN files

\* C2: after a confirmed delete of a note resolved through a listing index, no
\* entry of the listing cache holds the deleted note's path, and the index no
\* longer resolves.
C2_DeletePurgesCache ==
  (Deleted /\ last.token # "_") =>
    /\ last.old \notin CachePaths
    /\ ~fetch_note(last.token).ok

C4_NoRenameOntoExistingNote ==
  [][last'.cmd \in {"view", "edit", "random"} =>
       /\ \A p \in DOMAIN files \cap DOMAIN files' : files'[p] = files[p]
       /\ Cardinality(DOMAIN files') = Cardinality(DOMAIN files)
    ]_vars

\* C5: for every note, created <= edited and created <= viewed.
C5_CreatedIsEarliest ==
  \A p \in DOMAIN files :
    /\ StrLeq(parse_noteinfo(p).created, parse_noteinfo(p).edited)
    /\ StrLeq(parse_noteinfo(p).created, parse_noteinfo(p).viewed)

\* C6: after any list command, also one whose filtered result is empty, the
\* listing cache exists and holds exactly the entries of that listing.
C6_ListReplacesCache ==
  last.cmd = "list" =>
    /\ listing # <<>>
    /\ CachePaths = {last.result[i].path : i \in 1..Len(last.result)}
    /\ Cardinality(DOMAIN listing[1]) = Len(last.result)

\* C7: when a view or edit renames a note from oldPath to newPath and a
\* listing cache exists, the cache keeps its keys, every entry that equalled
\* oldPath equals newPath, and every other entry keeps its value.
C7_PatchRewritesOnlyOldPath ==
  [][(clock' = clock /\ last'.cmd \in {"view", "edit"} /\ last'.outcome = "ok") =>
       /\ last'.old \in DOMAIN files
       /\ last'.new \in DOMAIN files'
       /\ listing # <<>> /\ listing' # <<>>
       /\ DOMAIN listing'[1] = DOMAIN listing[1]
       /\ \A k \in DOMAIN listing[1] :
            listing'[1][k] = IF listing[1][k] = last'.old THEN last'.new ELSE listing[1][k]
    ]_vars

\* A view or edit has renamed a note that the cache lists, beside another note.
C7_Witness ==
  /\ Touched
  /\ last.old # last.new
  /\ last.new \in CachePaths
  /\ \E p \in CachePaths : p # last.new

\* C8: right after a successful view or edit of listing index i, the token `_`
\* resolves to the note index i pointed to, under its path after the rename.
C8_UnderscoreAfterIndexedTouch ==
  (Touched /\ last.token # "_") =>
    /\ fetch_note("_").ok
    /\ fetch_note("_").note.path = last.new
    /\ last.new \in DOMAIN files
    /\ files[last.new] = last.id

\* A view or edit by index has renamed the note.
C8_Witness ==
  /\ Touched
  /\ last.token # "_"
  /\ last.old # last.new

\* C9: after a confirmed delete the last-note pointer, which the resolution
\* had set to the deleted note, is absent, and `_` no longer resolves.
C9_DeleteClearsPointer ==
  Deleted =>
    /\ lastnote = <<>>
    /\ ~fetch_note("_").ok
    /\ last.old \notin DOMAIN files

\* The note the pointer referred to has been deleted through `_`, while the
\* cache still exists.
C9_Witness ==
  /\ Deleted
  /\ last.token = "_"
  /\ listing # <<>>

\* C10: after an add, `_` resolves to the note just added.
C10_AddSetsPointer ==
  last.cmd = "add" =>
    /\ fetch_note("_").ok
    /\ fetch_note("_").note.path = last.new

\* C11: after a touch in mode edited the note's new edited timestamp equals
\* its new viewed timestamp, and neither is less than the edited and viewed
\* timestamps the note had before the touch.
C11_EditNeverDecreases ==
  (last.cmd = "edit" /\ last.new # "") =>
    LET o == parse_noteinfo(last.old)
        n == parse_noteinfo(last.new)
    IN /\ n.edited = n.viewed
       /\ StrLeq(o.edited, n.edited)
       /\ StrLeq(o.viewed, n.edited)

ValidName(name) ==
  /\ Len(name) = 42 + Len(EXTENSION)
  /\ \A i \in 1..42 : IsDigit(Char(name, i))
  /\ Slice(name, 42, Len(name)) = EXTENSION

\* C13: a file whose name is not three 14-digit timestamps and the extension
\* never has an entry in the listing cache, whatever the sort mode of the
\* listing, and no token resolves to a note with such a name.
C13_InvalidNameRejected ==
  /\ \A p \in CachePaths : ValidName(Basename(p))
  /\ \A token \in Tokens :
       fetch_note(token).ok => ValidName(fetch_note(token).note.name)

\* C14: decoding the name built from the timestamps c, e, v and the extension
\* gives back c, e and v: for every note of the store, and for the name a view
\* or edit has just built from the decoded timestamps of the old name.
C14_DecodeInvertsEncode ==
  /\ \A c \in Stamps, e \in Stamps, v \in Stamps :
       LET path == note_path(note_name(c, e, v))
           note == parse_noteinfo(path)
       IN path \in DOMAIN files =>
            /\ note.created = c
            /\ note.edited = e
            /\ note.viewed = v
            /\ note.name = note_name(c, e, v)
  /\ (last.cmd \in {"view", "edit"} /\ last.new # "") =>
       LET o == parse_noteinfo(last.old)
           n == parse_noteinfo(last.new)
       IN /\ n.created = o.created
          /\ n.edited = (IF last.cmd = "edit" THEN n.viewed ELSE o.edited)
          /\ \E t \in 0..clock : n.viewed = Strftime(t)
          /\ n.name = note_name(n.created, n.edited, n.viewed)

\* The store holds a note with three different timestamps that a view has
\* renamed.
C14_Witness ==
  /\ last.cmd = "view"
  /\ last.outcome = "ok"
  /\ last.old # last.new
  /\ \E p \in DOMAIN files :
       LET note == parse_noteinfo(p) IN
       /\ note.created # note.edited
       /\ note.edited # note.viewed
       /\ note.created # note.viewed

\* The resolution of a token fails: `_` with no last-note pointer, an index
\* with no listing or absent from it.
ResolutionFails(token) ==
  IF token = "_" THEN lastnote = <<>>
  ELSE listing = <<>> \/ token \notin DOMAIN listing[1]

\* C15: a view, edit or delete whose token does not resolve ends with its
\* message and leaves the note files, the listing cache and the last-note
\* pointer as they were.
C15_FailedResolutionChangesNothing ==
  [][(clock' = clock /\ last'.cmd \in {"view", "edit", "delete"}
        /\ ResolutionFails(last'.token)) =>
       /\ last'.outcome = "not available"
       /\ files' = files
       /\ listing' = listing
       /\ lastnote' = lastnote
    ]_vars

\* An index absent from the listing has been refused while notes, a listing
\* cache and a last-note pointer exist.
C15_Witness ==
  /\ last.outcome = "not available"
  /\ last.token # "_"
  /\ DOMAIN files # {}
  /\ listing # <<>>
  /\ lastnote # <<>>

\* C16: with add, list, view, edit and random only, the store holds as many
\* files as adds were performed and every added note still has its file.
C16_NoNoteLost ==
  /\ Cardinality(DOMAIN files) = added
  /\ \A id \in 0..(added - 1) : \E p \in DOMAIN files : files[p] = id

\* C17: after a list command that follows a view or edit killed between the
\* rename and the rewrite of the caches, neither the listing cache nor the
\* last-note pointer holds a path that names no file.
C17_CrashHealsAtNextList ==
  last.cmd = "list" =>
    /\ \A p \in CachePaths : p \in DOMAIN files
    /\ lastnote = <<>> \/ PointerPath \in DOMAIN files

\* C18: with add, list, view, edit and random only, every entry of the
\* listing cache is the path of an existing note file and every index of the
\* cache resolves to it.
C18_CacheEntriesExist ==
  listing # <<>> =>
    \A k \in DOMAIN listing[1] :
      /\ listing[1][k] \in DOMAIN files
      /\ fetch_note(k).ok
      /\ fetch_note(k).note.path \in DOMAIN files

\* A listed note has been renamed by a touch after three notes were listed.
C18_Witness ==
  /\ last.cmd \in {"view", "edit", "random"}
  /\ last.outcome = "ok"
  /\ last.old # last.new
  /\ last.new \in CachePaths
  /\ Cardinality(DOMAIN listing[1]) = 3

\* C19: a touch that renames a note whose old path no cache entry holds, the
\* case of no listing cache at all included, finishes normally: the cache is
\* as it was, the note is at its new path and the pointer holds that path.
C19_PatchWithoutEntryIsNoop ==
  [][(clock' = clock /\ last'.cmd \in {"view", "edit", "random"} /\ last'.new # ""
        /\ last'.old \notin CachePaths) =>
       /\ last'.outcome = "ok"
       /\ listing' = listing
       /\ last'.new \in DOMAIN files'
       /\ lastnote' = write_lastnote(last'.new)
    ]_vars

\* C20: when an invocation writes listing.json, the file becomes the mapping
\* that invocation read with its own note's path replaced, whatever the file
\* held since: an entry another invocation rewrote to its note's new path
\* after the read goes back to that note's pre-rename path (no merge).
C20_LastWriterWinsNoMerge ==
  [][\A q \in DOMAIN running :
       (running[q].pc = "dump" /\ running'[q].pc = "done") =>
         LET read == running[q].listing[1] IN
         /\ listing' # <<>>
         /\ DOMAIN listing'[1] = DOMAIN read
         /\ \A k \in DOMAIN read :
              listing'[1][k] = IF read[k] = running[q].note.path
                                 THEN running[q].new.path ELSE read[k]
         /\ \A p \in DOMAIN running \ {q} : \A k \in DOMAIN read :
              (/\ running[p].pc = "done"
               /\ listing # <<>> /\ k \in DOMAIN listing[1]
               /\ listing[1][k] = running[p].new.path
               /\ read[k] = running[p].note.path
               /\ read[k] # running[q].note.path) => listing'[1][k] = running[p].note.path
    ]_vars

\* Both invocations have finished on different listed notes; the note the
\* first writer renamed is in the final cache under its pre-rename path, which
\* names no file, while the last writer's note is there under its new path.
C20_Witness ==
  \E p \in DOMAIN running, q \in DOMAIN running :
    /\ p # q
    /\ running[p].pc = "done" /\ running[q].pc = "done"
    /\ running[p].note.path # running[q].note.path
    /\ running[p].note.path # running[p].new.path
    /\ running[p].note.path \in CachePaths
    /\ running[p].note.path \notin DOMAIN files
    /\ running[p].new.path \in DOMAIN files
    /\ running[p].new.path \notin CachePaths
    /\ running[q].new.path \in CachePaths
    /\ running[q].new.path \in DOMAIN files

\* C21: right after a list command that reports N entries, the keys of the
\* listing cache are exactly the indices 0 .. N-1 and no two of them map to
\* the same path.
C21_KeysAreZeroToNMinusOne ==
  Listed =>
    LET N == Len(last.result) IN
    /\ DOMAIN listing[1] = {IntStr(i) : i \in 0..(N - 1)}
    /\ \A j \in DOMAIN listing[1], k \in DOMAIN listing[1] :
         j # k => listing[1][j] # listing[1][k]

\* C22: the note a touch has renamed has the created timestamp and the
\* directory it had before; after a touch in mode viewed it also has the
\* edited timestamp it had before, and only viewed is new; after a touch in
\* mode edited, edited and viewed are the new timestamp.  The file at the new
\* path is the note's file.
C22_TouchChangesOnlyItsTimestamps ==
  (last.cmd \in {"view", "edit", "random"} /\ last.new # "") =>
    LET o == parse_noteinfo(last.old)
        n == parse_noteinfo(last.new)
    IN /\ n.created = o.created
       /\ Dirname(last.new) = Dirname(last.old)
       /\ \E t \in 0..clock : n.viewed = Strftime(t)
       /\ n.edited = (IF last.mode = "edited" THEN n.viewed ELSE o.edited)
       /\ n.name = note_name(o.created, n.edited, n.viewed)
       /\ last.new \in DOMAIN files
       /\ files[last.new] = last.id

\* A view has renamed a note whose edited timestamp is not the second of the
\* view.
C22_Witness ==
  /\ last.cmd = "view"
  /\ last.outcome = "ok"
  /\ last.old # last.new
  /\ parse_noteinfo(last.new).edited # parse_noteinfo(last.new).viewed
  /\ parse_noteinfo(last.new).created # parse_noteinfo(last.new).viewed

\* C23: a delete answered with anything other than `y` removes no note file
\* and leaves the listing cache as it was; the last-note pointer then holds
\* the path of the note the token resolved to, and nothing else has changed.
C23_CancelledDeleteOnlySetsPointer ==
  [][(clock' = clock /\ last'.cmd = "delete"
        /\ last'.outcome \in {"cancelled", "deleted"} /\ last'.ans # "y") =>
       /\ last'.outcome = "cancelled"
       /\ files' = files
       /\ listing' = listing
       /\ last'.old \in DOMAIN files
       /\ lastnote' = <<last'.old \o "\n">>
       /\ added' = added
    ]_vars

\* A delete of a listed note, answered `yes`, has been cancelled: both notes
\* and the cache are there and the pointer holds the note's path.
C23_Witness ==
  /\ last.cmd = "delete"
  /\ last.outcome = "cancelled"
  /\ last.ans = "yes"
  /\ last.token # "_"
  /\ Cardinality(DOMAIN files) = 2
  /\ listing # <<>>
  /\ PointerPath = last.old
  /\ last.old \in DOMAIN files

\* C24: a creation that has started ends with the file created, after no
\* more retries than the store has files, at the first free path from the
\* second it started.
C24_CreateTerminates ==
  /\ [](Creating => running[1].now - running[1].start <= Cardinality(DOMAIN files))
  /\ [][(Creating /\ ~Creating') =>
          /\ last'.cmd = "add"
          /\ last'.new = create_file(running[1].start, files)
          /\ last'.new \notin DOMAIN files
          /\ last'.new \in DOMAIN files'
       ]_vars
  /\ Creating ~> (~Creating /\ last.cmd = "add")

\* A creation has ended after two retries: the store held files at the
\* second it started and at the next one.
C24_Witness ==
  /\ ~Creating
  /\ last.cmd = "add"
  /\ Cardinality(DOMAIN files) = 3
  /\ \E t \in 0..clock :
       /\ parse_noteinfo(last.new).created = Strftime(t + 2)
       /\ note_path(note_name(Strftime(t), Strftime(t), Strftime(t))) \in DOMAIN files
       /\ note_path(note_name(Strftime(t + 1), Strftime(t + 1), Strftime(t + 1))) \in DOMAIN files

====
